---------------------------- MODULE Spec2Model ----------------------------
(***************************************************************************)
(* A model of the "AI proxy" servers of misskey-aj-filter: the /analyze    *)
(* handlers (index.js and the strictness-level variant), the /rewrite      *)
(* handlers of the variants and their local fallbacks, and the persistent  *)
(* learning store Learn of index.js.                                       *)
(*                                                                         *)
(* A JavaScript string is modelled as the sequence of its code points, so  *)
(* "a" is <<97>> and "死ね" is <<27515, 12397>>.  A JavaScript value that    *)
(* may be absent is a record [t, s]: t is "undefined", "null" or "string"  *)
(* and s is the string (empty unless t is "string").                       *)
(***************************************************************************)
EXTENDS Integers, Sequences, FiniteSets, TLC

(***************************************************************************)
(* Strings                                                                 *)
(***************************************************************************)

Min(S) == CHOOSE x \in S : \A y \in S : x <= y

\* White space as String.prototype.trim and the regular expression \s see it
WhiteSpace == {9, 10, 11, 12, 13, 32, 160, 5760, 8232, 8233, 8239, 8287, 12288, 65279}
                  \cup (8192..8202)

IsSpace(c) == c \in WhiteSpace

\* String.prototype.toLowerCase on one code point: A-Z and the full-width
\* Ａ-Ｚ are the cased letters of the model's alphabet
LowerChar(c) ==
    IF c \in 65..90 \/ c \in 65313..65338 THEN c + 32 ELSE c

toLowerCase(s) == [i \in 1..Len(s) |-> LowerChar(s[i])]

IsPrefix(w, s) == Len(w) <= Len(s) /\ SubSeq(s, 1, Len(w)) = w

IsSuffix(w, s) == Len(w) <= Len(s) /\ SubSeq(s, Len(s) - Len(w) + 1, Len(s)) = w

Drop(s, n) == SubSeq(s, n + 1, Len(s))

\* String.prototype.includes
includes(s, w) == \E i \in 0..(Len(s) - Len(w)) : SubSeq(s, i + 1, i + Len(w)) = w

\* String.prototype.slice(0, n), n >= 0
slice0(s, n) == IF Len(s) <= n THEN s ELSE SubSeq(s, 1, n)

RECURSIVE trimStart(_)
trimStart(s) == IF s # <<>> /\ IsSpace(Head(s)) THEN trimStart(Tail(s)) ELSE s

RECURSIVE trimEnd(_)
trimEnd(s) ==
    IF s # <<>> /\ IsSpace(s[Len(s)]) THEN trimEnd(SubSeq(s, 1, Len(s) - 1)) ELSE s

\* String.prototype.trim
trim(s) == trimEnd(trimStart(s))

\* the length of the longest prefix of s made of code points of cls
RECURSIVE RunLen(_, _)
RunLen(s, cls) == IF s # <<>> /\ Head(s) \in cls THEN 1 + RunLen(Tail(s), cls) ELSE 0

\* s.replace(/(w1|w2|...)/g, rep): leftmost match first, alternatives in order
RECURSIVE replaceAlts(_, _, _)
replaceAlts(s, alts, rep) ==
    IF s = <<>> THEN <<>>
    ELSE LET hits == {k \in 1..Len(alts) : IsPrefix(alts[k], s)}
         IN  IF hits # {}
             THEN rep \o replaceAlts(Drop(s, Len(alts[Min(hits)])), alts, rep)
             ELSE <<Head(s)>> \o replaceAlts(Tail(s), alts, rep)

\* s.replace(/[cls]{n,}/g, rep), and with keepLast s.replace(/([cls]){n,}/g, "$1"):
\* every maximal run of at least n code points of cls becomes rep, or the
\* last code point of the run
RECURSIVE replaceRuns(_, _, _, _, _)
replaceRuns(s, cls, n, rep, keepLast) ==
    IF s = <<>> THEN <<>>
    ELSE LET r == RunLen(s, cls)
         IN  IF r >= n
             THEN (IF keepLast THEN <<s[r]>> ELSE rep)
                      \o replaceRuns(Drop(s, r), cls, n, rep, keepLast)
             ELSE <<Head(s)>> \o replaceRuns(Tail(s), cls, n, rep, keepLast)

\* s.replace(/w$/, rep)
replaceEnd(s, w, rep) ==
    IF IsSuffix(w, s) THEN SubSeq(s, 1, Len(s) - Len(w)) \o rep ELSE s

\* the table applied as a chain of .replace calls
RECURSIVE replaceChain(_, _, _)
replaceChain(s, table, k) ==
    IF k > Len(table) THEN s
    ELSE replaceChain(replaceAlts(s, table[k].alts, table[k].rep), table, k + 1)

(***************************************************************************)
(* JavaScript values that may be absent                                    *)
(***************************************************************************)

Undefined == [t |-> "undefined", s |-> <<>>]
Null      == [t |-> "null", s |-> <<>>]
Str(s)    == [t |-> "string", s |-> s]

\* "undefined" and "null" as String(x) spells them
str_undefined == <<117, 110, 100, 101, 102, 105, 110, 101, 100>>
str_null      == <<110, 117, 108, 108>>

\* const toStr = (x)=> (x==null ? "" : String(x))
toStr(x) == IF x.t = "string" THEN x.s ELSE <<>>

\* String(x)
String(x) ==
    CASE x.t = "string" -> x.s
      [] x.t = "null" -> str_null
      [] OTHER -> str_undefined

\* x || "" and x ?? "" on a value that is a string, undefined or null
orEmpty(x) == IF x.t = "string" THEN x.s ELSE <<>>

(***************************************************************************)
(* The strictness-level /analyze: its four regular expressions and decide  *)
(***************************************************************************)

\* rx.profanity: the alternatives of the regular expression, in order
rx_profanity ==
    <<
        <<27515, 12397>>,    \* 死ね
        <<27578, 12377>>,    \* 殺す
        <<12496, 12459>>,    \* バカ
        <<39340, 40575>>,    \* 馬鹿
        <<12450, 12507>>,    \* アホ
        <<12463, 12474>>,    \* クズ
        <<12459, 12473>>,    \* カス
        <<28040, 12360, 12429>>,    \* 消えろ
        <<12461, 12514>>,    \* キモ
        <<26368, 24746>>,    \* 最悪
        <<9675, 12397>>,    \* ○ね
        <<12406, 12387, 27578>>,    \* ぶっ殺
        <<102, 117, 99, 107>>,    \* fuck
        <<115, 104, 105, 116>>,    \* shit
        <<98, 105, 116, 99, 104>> >>    \* bitch

\* rx.sexual: the alternatives of the regular expression, in order
rx_sexual ==
    <<
        <<12475, 12483, 12463, 12473>>,    \* セックス
        <<115, 101, 120>>,    \* sex
        <<12456, 12525>>,    \* エロ
        <<12385, 12435>>,    \* ちん
        <<12414, 12435>>,    \* まん
        <<20083>>,    \* 乳
        <<12524, 12452, 12503>>,    \* レイプ
        <<12456, 12483, 12481>> >>    \* エッチ

\* /(w1|w2|...)/i.test(t): some alternative occurs in t, letter case ignored
testAnyI(t, words) ==
    \E k \in 1..Len(words) : includes(toLowerCase(t), toLowerCase(words[k]))

\* the class [ぁ-んァ-ンｦ-ﾟa-zA-Z0-9]
noiseClass ==
    (12353..12435) \cup (12449..12531) \cup (65382..65439)
        \cup (97..122) \cup (65..90) \cup (48..57)

\* the class [ぁあー]
sighClass == {12353, 12354, 12540}

\* rx.spamNoise = /([ぁ-んァ-ンｦ-ﾟa-zA-Z0-9])\1{6,}|[ぁあー]{6,}/i
rx_spamNoise(t) ==
    \/ \E i \in 1..(Len(t) - 6) :
          /\ t[i] \in noiseClass
          /\ \A k \in 1..6 : LowerChar(t[i + k]) = LowerChar(t[i])
    \/ \E i \in 1..(Len(t) - 5) : \A k \in 0..5 : t[i + k] \in sighClass

AllSpace(s, a, b) == \A k \in a..b : IsSpace(s[k])

SomeNonSpace(s, a, b) == a <= b /\ \A k \in a..b : ~IsSpace(s[k])

str_http  == <<104, 116, 116, 112, 58, 47, 47>>
str_https == <<104, 116, 116, 112, 115, 58, 47, 47>>

\* s[i..j] is one repetition of the group of rx.emptyRp:
\*   \s*@\S+\s*  |  [#＃]\S+\s*  |  https?:\/\/\S+\s*
emptyRpGroup(s, i, j) ==
    \/ \E a \in i..j :
          /\ AllSpace(s, i, a - 1)
          /\ s[a] = 64
          /\ \E b \in (a + 1)..j : SomeNonSpace(s, a + 1, b) /\ AllSpace(s, b + 1, j)
    \/ /\ s[i] \in {35, 65283}
       /\ \E b \in (i + 1)..j : SomeNonSpace(s, i + 1, b) /\ AllSpace(s, b + 1, j)
    \/ \E p \in {str_http, str_https} :
          /\ IsPrefix(p, toLowerCase(SubSeq(s, i, j)))
          /\ \E b \in (i + Len(p))..j :
                SomeNonSpace(s, i + Len(p), b) /\ AllSpace(s, b + 1, j)

RECURSIVE emptyRpFrom(_, _)
emptyRpFrom(s, i) ==
    \E j \in i..Len(s) : emptyRpGroup(s, i, j) /\ (j = Len(s) \/ emptyRpFrom(s, j + 1))

\* rx.emptyRp = /^(\s*@\S+\s*|[#＃]\S+\s*|https?:\/\/\S+\s*)+$/i
rx_emptyRp(t) == emptyRpFrom(t, 1)

\* likeWords / dislikeWords: [...set].map(s=>String(s).toLowerCase()).filter(Boolean)
lowerWords(tokens) == {toLowerCase(w) : w \in tokens} \ {<<>>}

\* decide with a moderate level that hides noise instead of rewriting it
decide_moderateHidesNoise(text, level, likeWords, dislikeWords) ==
    LET t        == orEmpty(text)
        low      == toLowerCase(t)
        hitProf  == testAnyI(t, rx_profanity) \/ testAnyI(t, rx_sexual)
        hitSpam  == rx_spamNoise(t)
        hitEmpty == rx_emptyRp(t)
        byLike   == IF \E w \in likeWords : w # <<>> /\ includes(low, w)
                    THEN "rewrite" ELSE "keep"
    IN  IF \E w \in dislikeWords : w # <<>> /\ includes(low, w) THEN "hide"
        ELSE IF level = "strict"
        THEN (IF hitProf \/ hitSpam \/ hitEmpty THEN "hide" ELSE byLike)
        ELSE IF level = "moderate"
        THEN (IF hitProf \/ hitEmpty \/ hitSpam THEN "hide" ELSE byLike)
        ELSE (IF hitProf THEN "hide"
              ELSE IF hitSpam \/ hitEmpty THEN "rewrite" ELSE byLike)

\* decide with a strict level that only rewrites an empty reply
decide_strictRewritesEmptyReply(text, level, likeWords, dislikeWords) ==
    LET t        == orEmpty(text)
        low      == toLowerCase(t)
        hitProf  == testAnyI(t, rx_profanity) \/ testAnyI(t, rx_sexual)
        hitSpam  == rx_spamNoise(t)
        hitEmpty == rx_emptyRp(t)
        byLike   == IF \E w \in likeWords : w # <<>> /\ includes(low, w)
                    THEN "rewrite" ELSE "keep"
    IN  IF \E w \in dislikeWords : w # <<>> /\ includes(low, w) THEN "hide"
        ELSE IF level = "strict"
        THEN (IF hitProf \/ hitSpam THEN "hide"
              ELSE IF hitEmpty THEN "rewrite" ELSE byLike)
        ELSE IF level = "moderate"
        THEN (IF hitProf \/ hitEmpty THEN "hide"
              ELSE IF hitSpam THEN "rewrite" ELSE byLike)
        ELSE (IF hitProf THEN "hide"
              ELSE IF hitSpam \/ hitEmpty THEN "rewrite" ELSE byLike)

\* decide(text) of the strictness-level /analyze; text is it?.text
decide(text, level, likeWords, dislikeWords) ==
    LET t        == orEmpty(text)
        low      == toLowerCase(t)
        hitProf  == testAnyI(t, rx_profanity) \/ testAnyI(t, rx_sexual)
        hitSpam  == rx_spamNoise(t)
        hitEmpty == rx_emptyRp(t)
        byLike   == IF \E w \in likeWords : w # <<>> /\ includes(low, w)
                    THEN "rewrite" ELSE "keep"
    IN  IF \E w \in dislikeWords : w # <<>> /\ includes(low, w) THEN "hide"
        ELSE IF level = "strict"
        THEN (IF hitProf \/ hitSpam \/ hitEmpty THEN "hide" ELSE byLike)
        ELSE IF level = "moderate"
        THEN (IF hitProf \/ hitEmpty THEN "hide"
              ELSE IF hitSpam THEN "rewrite" ELSE byLike)
        ELSE (IF hitProf THEN "hide"
              ELSE IF hitSpam \/ hitEmpty THEN "rewrite" ELSE byLike)

(***************************************************************************)
(* /analyze of index.js: one item's suggestion                             *)
(***************************************************************************)

\* badHints of POST /analyze (index.js)
badHints ==
    <<
        <<27515, 12397>>,    \* 死ね
        <<12496, 12459>>,    \* バカ
        <<12463, 12477>>,    \* クソ
        <<26368, 24746>>,    \* 最悪
        <<28040, 12360, 12429>>,    \* 消えろ
        <<12512, 12459, 12388, 12367>>,    \* ムカつく
        <<12461, 12514, 12356>>,    \* キモい
        <<12358, 12374, 12356>>,    \* うざい
        <<12406, 12387, 27578>>,    \* ぶっ殺
        <<102, 117, 99, 107>>,    \* fuck
        <<115, 104, 105, 116>>,    \* shit
        <<105, 100, 105, 111, 116>>,    \* idiot
        <<109, 111, 114, 111, 110>>,    \* moron
        <<107, 105, 108, 108, 32, 121, 111, 117>> >>    \* kill you

\* the loop body with the like tokens looked at before badHints
suggestOf_likeBeforeBadHints(text, likeAll, dislikeAll) ==
    LET low == toLowerCase(orEmpty(text))
    IN  IF \E w \in dislikeAll : w # <<>> /\ includes(low, toLowerCase(w)) THEN "hide"
        ELSE IF \E w \in likeAll : w # <<>> /\ includes(low, toLowerCase(w))
        THEN "rewrite"
        ELSE IF \E k \in 1..Len(badHints) : includes(low, toLowerCase(badHints[k]))
        THEN "hide"
        ELSE "keep"

\* the body of the loop over items: text is it?.text, the token sets are
\* likeAll and dislikeAll
suggestOf(text, likeAll, dislikeAll) ==
    LET low == toLowerCase(orEmpty(text))
    IN  IF \E w \in dislikeAll : w # <<>> /\ includes(low, toLowerCase(w)) THEN "hide"
        ELSE IF \E k \in 1..Len(badHints) : includes(low, toLowerCase(badHints[k]))
        THEN "hide"
        ELSE IF \E w \in likeAll : w # <<>> /\ includes(low, toLowerCase(w))
        THEN "rewrite"
        ELSE "keep"

(***************************************************************************)
(* The local fallbacks                                                     *)
(***************************************************************************)

\* soften: the three replacements, in the order they are applied
softenTable ==
    <<
        [alts |-> <<<<27515, 12397>>, <<65408, 65419, 12397>>>>,
         rep |-> <<12388, 12425, 12356>>],    \* (死ね|ﾀﾋね) -> つらい
        [alts |-> <<<<12400, 12363>>, <<12496, 12459>>, <<39340, 40575>>, <<12450, 12507>>, <<12463, 12474>>, <<12459, 12473>>>>,
         rep |-> <<12424, 12367, 12394, 12356>>],    \* (ばか|バカ|馬鹿|アホ|クズ|カス) -> よくない
        [alts |-> <<<<12406, 12387, 27578>>, <<27578, 12377>>>>,
         rep |-> <<24594, 12387, 12390, 12427>>] >>    \* (ぶっ殺|殺す) -> 怒ってる

\* soften(text) of the strictness-level variant
soften(text) ==
    IF text = <<>> THEN text
    ELSE trim(replaceRuns(replaceChain(text, softenTable, 1), WhiteSpace, 2, <<32>>, FALSE))

\* the marker appended by the american_joke fallback: （※軽変換）
lightMark == <<65288, 8251, 36605, 22793, 25563, 65289>>

\* softenJapanese: the twelve replacements, in the order they are applied
softenJapaneseTable ==
    <<
        [alts |-> <<<<27515, 12397>>>>,
         rep |-> <<12420, 12417, 12390, 12411, 12375, 12356, 12391, 12377>>],    \* (死ね) -> やめてほしいです
        [alts |-> <<<<27578, 12377>>>>,
         rep |-> <<26412, 24403, 12395, 22256, 12426, 12414, 12377>>],    \* (殺す) -> 本当に困ります
        [alts |-> <<<<12496, 12459>>, <<12400, 12363>>, <<39340, 40575>>>>,
         rep |-> <<12424, 12367, 12394, 12356, 12392, 24605, 12356, 12414, 12377>>],    \* (バカ|ばか|馬鹿) -> よくないと思います
        [alts |-> <<<<12450, 12507>>>>,
         rep |-> <<37197, 24942, 12395, 27424, 12369, 12390, 12356, 12414, 12377>>],    \* (アホ) -> 配慮に欠けています
        [alts |-> <<<<12367, 12381>>, <<12463, 12477>>>>,
         rep |-> <<33391, 12367, 12354, 12426, 12414, 12379, 12435>>],    \* (くそ|クソ) -> 良くありません
        [alts |-> <<<<12406, 12387, 27578>>>>,
         rep |-> <<24375, 12356, 35328, 33865, 12434, 20351, 12387, 12390, 12375, 12414, 12356, 12381, 12358>>],    \* (ぶっ殺) -> 強い言葉を使ってしまいそう
        [alts |-> <<<<12365, 12418, 12356>>>>,
         rep |-> <<33510, 25163, 12391, 12377>>],    \* (きもい) -> 苦手です
        [alts |-> <<<<12459, 12473>>>>,
         rep |-> <<27531, 24565, 12391, 12377>>],    \* (カス) -> 残念です
        [alts |-> <<<<40665, 12428>>>>,
         rep |-> <<23569, 12375, 33853, 12385, 30528, 12365, 12383, 12356, 12391, 12377>>],    \* (黙れ) -> 少し落ち着きたいです
        [alts |-> <<<<26368, 24746>>>>,
         rep |-> <<12354, 12414, 12426, 33391, 12367, 12394, 12356, 12391, 12377>>],    \* (最悪) -> あまり良くないです
        [alts |-> <<<<12468, 12511>>>>,
         rep |-> <<28288, 36275, 12391, 12365, 12414, 12379, 12435>>],    \* (ゴミ) -> 満足できません
        [alts |-> <<<<12358, 12374>>>>,
         rep |-> <<23569, 12375, 22256, 12387, 12390, 12356, 12414, 12377>>] >>    \* (うざ) -> 少し困っています

\* softenJapanese: the three end-of-text replacements (/...$/), in order
softenEndings ==
    <<
        [alts |-> <<<<12384, 12424, 12397>>>>,
         rep |-> <<12384, 12424, 12397, 12290>>],    \* (だよね) -> だよね。
        [alts |-> <<<<12384, 12424>>>>,
         rep |-> <<12384, 12392, 24605, 12356, 12414, 12377, 12290>>],    \* (だよ) -> だと思います。
        [alts |-> <<<<12384>>>>,
         rep |-> <<12384, 12392, 24605, 12356, 12414, 12377, 12290>>] >>    \* (だ) -> だと思います。

\* the classes [!！?？。], [wW], [\u{1F300}-\u{1FAFF}] and [。！？\n]
markClass  == {33, 65281, 63, 65311, 12290}
laughClass == {119, 87}
emojiClass == 127744..129791
stopClass  == {12290, 65281, 65311, 10}

RECURSIVE replaceEnds(_, _, _)
replaceEnds(s, table, k) ==
    IF k > Len(table) THEN s
    ELSE replaceEnds(replaceEnd(s, table[k].alts[1], table[k].rep), table, k + 1)

\* softenJapanese(text)
softenJapanese(text) ==
    LET t1 == replaceRuns(text, markClass, 2, <<>>, TRUE)
        t2 == replaceRuns(t1, laughClass, 3, <<119>>, FALSE)
        t3 == replaceRuns(t2, emojiClass, 3, <<128578>>, FALSE)
        t4 == replaceChain(t3, softenJapaneseTable, 1)
        t5 == replaceEnds(t4, softenEndings, 1)
        t6 == IF Len(t5) >= 2 /\ \A i \in 1..Len(t5) : t5[i] \notin stopClass
              THEN t5 \o <<12290>> ELSE t5
        t7 == replaceAlts(t6, << <<65281>> >>, <<12290>>)
    IN  replaceRuns(t7, {33}, 1, <<12290>>, FALSE)

\* toAmericanJokeLine: the pool of closing remarks
addOns ==
    <<
        <<8230, 12390, 12371, 12392, 12391, 12289, 20170, 26085, 12398, 31169, 12395, 12399, 36861, 12356, 39080, 12434, 12367, 12384, 12373, 12356, 12290>>,    \* …てことで、今日の私には追い風をください。
        <<8212, 32, 12391, 12418, 12467, 12540, 12498, 12540, 12399, 32654, 21619, 12375, 12363, 12387, 12383, 12398, 12391, 12481, 12515, 12521, 12391, 12377, 12290>>,    \* — でもコーヒーは美味しかったのでチャラです。
        <<65288, 25945, 35347, 65306, 23517, 19981, 36275, 12395, 27491, 32681, 12394, 12375, 65289>>,    \* （教訓：寝不足に正義なし）
        <<8230, 20887, 35527, 12391, 12377, 12290, 21322, 20998, 12384, 12369, 26412, 27671, 12391, 12377, 12290>> >>    \* …冗談です。半分だけ本気です。

\* toAmericanJokeLine(jp), k the index Math.random picks
toAmericanJokeLine(jp, k) == softenJapanese(jp) \o <<32>> \o addOns[k]

(***************************************************************************)
(* State                                                                   *)
(***************************************************************************)

VARIABLES
    like,       \* Learn.like: a Set, as the sequence of its elements in insertion order
    dislike,    \* Learn.dislike
    dirty,      \* Learn._dirty
    file,       \* the content of the file at LEARN_PATH
    saves,      \* the calls of Learn.save() that are awaiting fs.writeFile
    learnResp,  \* the responses of /learn and /learn/reset requests not yet received
    learnWrites, \* how often a /learn handler has called fs.writeFile since the last tick
    apiKey,     \* whether OPENAI_API_KEY is set
    an,         \* the response of an /analyze request, <<>> when none
    rw,         \* the /rewrite request being served, <<>> when none
    call        \* the completion call the /rewrite handler awaits, <<>> when none

vars == <<like, dislike, dirty, file, saves, learnResp, learnWrites, apiKey, an, rw, call>>

storeVars == <<like, dislike, dirty, file, saves, learnResp, learnWrites>>

Range(s) == {s[i] : i \in 1..Len(s)}

Max(S) == CHOOSE x \in S : \A y \in S : x >= y

\* an add that appends the element whether the Set holds it or not
setAdd_append(s, t) == Append(s, t)

\* Set.prototype.add on a Set kept as a sequence
setAdd(s, t) == IF t \in Range(s) THEN s ELSE Append(s, t)

\* arr.slice(0, n)
sliceN(arr, n) == IF Len(arr) <= n THEN arr ELSE SubSeq(arr, 1, n)

\* const take = (arr,n)=> Array.isArray(arr) ? arr.slice(0,n) : []
take(body, n) == IF body.isArray THEN sliceN(body.items, n) ELSE <<>>

\* Array.isArray(req.body?.items) ? req.body.items : []
arrayOrEmpty(body) == IF body.isArray THEN body.items ELSE <<>>

\* the object built by out[key[i]] = val[i] for i = 1, 2, ...: a later
\* assignment to the same key replaces the earlier one
assignAll(key, val) ==
    [k \in Range(key) |-> val[Max({i \in 1..Len(key) : key[i] = k})]]

\* it?.id and it?.text of an entry of items (an entry may be null)
idOf(it)   == IF it.isNull THEN Undefined ELSE it.id
textOf(it) == IF it.isNull THEN Undefined ELSE it.text

(***************************************************************************)
(* The inputs of the model                                                 *)
(***************************************************************************)

\* the longest list of items drawn entry by entry
MaxItems == 2

\* the number of saves that may be awaiting their write at once
MaxSaves == 2

\* the calls of fs.writeFile by /learn handlers that are counted between two ticks
MaxWrites == 2

\* the per-request caps: take(req.body?.items, 50) and take(req.body?.items, 40)
AnalyzeCap == 50
RewriteCap == 40
LearnCap == 200

Tok1 == <<110, 101, 107, 111>>    \* neko
Tok2 == <<73, 110, 117>>          \* Inu

Item(id, text) == [isNull |-> FALSE, id |-> id, text |-> text]
NullItem       == [isNull |-> TRUE, id |-> Undefined, text |-> Undefined]

Id1 == <<49>>    \* "1"
Id2 == <<97>>    \* "a"

str_hi == <<104, 105>>    \* hi

\* a text for every combination of: matching rx.emptyRp (it starts with @
\* and holds no space), holding a word of rx.profanity and of badHints
\* (消えろ), a word of rx.sexual (Sex), a run that rx.spamNoise matches
\* (aAaaaaa), Tok1 in upper case (NEKO) and Tok2 in lower case (inu)
flagText(e, p, s, n, a, b) ==
    (IF e THEN <<64>> ELSE <<>>) \o str_hi
        \o (IF p THEN <<28040, 12360, 12429>> ELSE <<>>)
        \o (IF s THEN <<83, 101, 120>> ELSE <<>>)
        \o (IF n THEN <<97, 65, 97, 97, 97, 97, 97>> ELSE <<>>)
        \o (IF a THEN <<78, 69, 75, 79>> ELSE <<>>)
        \o (IF b THEN <<105, 110, 117>> ELSE <<>>)

FlagTexts ==
    {flagText(e, p, s, n, a, b) : e \in BOOLEAN, p \in BOOLEAN, s \in BOOLEAN,
                                  n \in BOOLEAN, a \in BOOLEAN, b \in BOOLEAN}

\* 死ね
txt_shine == <<27515, 12397>>
\* @foo #bar https://x
txt_mentions == <<64, 102, 111, 111, 32, 35, 98, 97, 114, 32, 104, 116, 116, 112, 115, 58, 47, 47, 120>>
\* 今日は忙しいからまた後で連絡するね。
txt_kyou == <<20170, 26085, 12399, 24537, 12375, 12356, 12363, 12425, 12414, 12383, 24460, 12391, 36899, 32097, 12377, 12427, 12397, 12290>>

TextValues ==
    {Str(t) : t \in FlagTexts \cup {txt_shine, txt_mentions, <<>>, <<32>>}}
        \cup {Undefined}

\* the token lists a request may carry
TokenLists == {{}, {Tok1}, {Tok2}, {<<>>}}

\* level of the request body: "" when the body has none
Levels == {"", "relaxed", "moderate", "strict", "verystrict"}

\* the entries that the lists of several items are made of
SmallItems ==
    {Item(Str(Id1), Str(str_hi)),
     Item(Str(Id1), Str(flagText(FALSE, FALSE, FALSE, FALSE, FALSE, TRUE))),
     Item(Str(Id2), Str(flagText(FALSE, FALSE, FALSE, FALSE, TRUE, TRUE))),
     Item(Undefined, Str(str_hi)),
     NullItem}

Lists(S, n) == UNION {[1..k -> S] : k \in 2..n}

\* a list one entry longer than the cap n: n times the same entry, then
\* an entry with another id
LongList(n) ==
    [i \in 1..(n + 1) |->
        IF i <= n THEN Item(Str(Id1), Str(str_hi))
        ELSE Item(Str(Id2), Str(flagText(FALSE, FALSE, FALSE, FALSE, FALSE, TRUE)))]

AnalyzeBody(isArray, items, level, lt, dt) ==
    [isArray |-> isArray, items |-> items, level |-> level,
     like_tokens |-> lt, dislike_tokens |-> dt]

AnalyzeBodies ==
    {AnalyzeBody(TRUE, <<Item(Str(Id1), tx)>>, l, lt, dt) :
        tx \in TextValues, l \in Levels, lt \in TokenLists, dt \in TokenLists}
    \cup {AnalyzeBody(TRUE, its, "", {Tok1}, {}) : its \in Lists(SmallItems, MaxItems)}
    \cup {AnalyzeBody(TRUE, LongList(AnalyzeCap), "", {}, {}),
          AnalyzeBody(TRUE, <<>>, "", {}, {}),
          AnalyzeBody(FALSE, <<>>, "", {}, {})}

\* "h" + Math.random().toString(36).slice(2): two of its values
GenIds == {<<104, 48, 120>>, <<104, 55, 107>>}

(***************************************************************************)
(* POST /analyze                                                           *)
(***************************************************************************)

\* new Set([...likeIn, ...Learn.like]), likeIn being the request's tokens
mergeTokens(tokensIn, learned) == tokensIn \cup Range(learned)

AnalyzeResponse(handler, body, status, ids, sug) ==
    [handler |-> handler, body |-> body, status |-> status, ids |-> ids,
     suggests |-> sug,
     results |-> IF status = 200 THEN assignAll(ids, sug) ELSE <<>>]

\* POST /analyze that adds the like tokens of the request to Learn.like
Analyze_learnsTokens ==
    /\ an = <<>>
    /\ \E body \in AnalyzeBodies :
          LET items == take(body, AnalyzeCap)
              sug   == [i \in 1..Len(items) |->
                           suggestOf(textOf(items[i]),
                                     mergeTokens(body.like_tokens, like),
                                     mergeTokens(body.dislike_tokens, dislike))]
              ids   == [i \in 1..Len(items) |->
                           IF toStr(idOf(items[i])) = <<>> THEN <<104, 48, 120>>
                           ELSE toStr(idOf(items[i]))]
          IN  /\ an' = <<AnalyzeResponse("index", body, 200, ids, sug)>>
              /\ like' = IF Tok1 \in body.like_tokens THEN setAdd(like, Tok1) ELSE like
    /\ UNCHANGED <<dislike, dirty, file, saves, learnResp, learnWrites, apiKey, rw, call>>

\* POST /analyze of index.js
Analyze ==
    /\ an = <<>>
    /\ \E body \in AnalyzeBodies :
          LET items      == take(body, AnalyzeCap)
              likeAll    == mergeTokens(body.like_tokens, like)
              dislikeAll == mergeTokens(body.dislike_tokens, dislike)
              noId       == {i \in 1..Len(items) : toStr(idOf(items[i])) = <<>>}
              sug        == [i \in 1..Len(items) |->
                                suggestOf(textOf(items[i]), likeAll, dislikeAll)]
          IN  \E gen \in [noId -> GenIds] :
                 LET ids == [i \in 1..Len(items) |->
                                IF i \in noId THEN gen[i] ELSE toStr(idOf(items[i]))]
                 IN  an' = <<AnalyzeResponse("index", body, 200, ids, sug)>>
    /\ UNCHANGED <<like, dislike, dirty, file, saves, learnResp, learnWrites, apiKey, rw, call>>

\* String(req.body?.level || "moderate")
levelOf(level) == IF level = "" THEN "moderate" ELSE level

\* POST /analyze of the strictness-level variant: out[it.id] throws a
\* TypeError on a null entry, which Express answers with status 500
AnalyzeLevels ==
    /\ an = <<>>
    /\ \E body \in AnalyzeBodies :
          LET items   == arrayOrEmpty(body)
              nulls   == {i \in 1..Len(items) : items[i].isNull}
              done    == IF nulls = {} THEN items ELSE SubSeq(items, 1, Min(nulls) - 1)
              likeW   == lowerWords(body.like_tokens)
              dislikeW == lowerWords(body.dislike_tokens)
              ids     == [i \in 1..Len(done) |-> String(done[i].id)]
              sug     == [i \in 1..Len(done) |->
                             decide(done[i].text, levelOf(body.level), likeW, dislikeW)]
          IN  an' = <<AnalyzeResponse("levels", body,
                                      IF nulls = {} THEN 200 ELSE 500, ids, sug)>>
    /\ UNCHANGED <<like, dislike, dirty, file, saves, learnResp, learnWrites, apiKey, rw, call>>

\* the client has received the response
AnalyzeDone ==
    /\ an # <<>>
    /\ an' = <<>>
    /\ UNCHANGED <<like, dislike, dirty, file, saves, learnResp, learnWrites, apiKey, rw, call>>

(***************************************************************************)
(* The completion service                                                  *)
(***************************************************************************)

\* the content of a completion: its text, and what JSON.parse makes of the
\* text ("text": it is no JSON text and JSON.parse throws; "object": map
\* holds the pairs <<key, value>> of the object, its values strings)
Content(kind, text, map) == [kind |-> kind, text |-> text, map |-> map]

c_empty  == Content("text", <<>>, {})                       \* the empty string
c_space  == Content("text", <<32>>, {})                     \* one space
c_plain  == Content("text", <<32, 111, 107, 32>>, {})       \* " ok "
c_null   == Content("null", str_null, {})                   \* null
c_number == Content("scalar", <<55>>, {})                   \* 7
\* {"1":"ok"}
c_obj1   == Content("object", <<123, 34, 49, 34, 58, 34, 111, 107, 34, 125>>,
                    {<<Id1, <<111, 107>>>>})
\* {"1":"ok","a":""}
c_obj2   == Content("object",
                    <<123, 34, 49, 34, 58, 34, 111, 107, 34, 44, 34, 97, 34, 58, 34, 34, 125>>,
                    {<<Id1, <<111, 107>>>>, <<Id2, <<>>>>})

\* how a fetch of the completion service ends: the fetch rejects
\* ("network"), the body is no JSON and r.json() rejects ("badbody"), the
\* status is no success ("http_error"), or a completion arrives ("ok")
Outcome(kind, content) == [kind |-> kind, content |-> content]

Failures == {Outcome(k, c_empty) : k \in {"network", "badbody", "http_error"}}

\* the outcomes of the call for one item, and of the call for a whole batch
ItemOutcomes  == Failures \cup {Outcome("ok", c) : c \in {c_empty, c_space, c_plain}}
BatchOutcomes == Failures
                     \cup {Outcome("ok", c) :
                              c \in {c_empty, c_plain, c_null, c_number, c_obj1, c_obj2}}

Pending    == [state |-> "pending", outcome |-> Outcome("network", c_empty)]
Settled(o) == [state |-> "settled", outcome |-> o]

\* callOpenAIChat with the key set: it throws unless a completion arrives
callOpenAIChat(o) == [threw |-> o.kind # "ok", content |-> o.content]

\* callOpenAIChat of the plain variant: it returns the trimmed content
callOpenAIChatTrim(o) ==
    [threw |-> o.kind # "ok", content |-> Content("text", trim(o.content.text), {})]

\* safeOpenAIChat: it never throws; without a key, and on every failure,
\* it returns ok: false and the last message
safeOpenAIChat(hasKey, o, last) ==
    IF hasKey /\ o.kind = "ok" THEN [ok |-> TRUE, text |-> o.content.text]
    ELSE [ok |-> FALSE, text |-> last]

\* parsed[id], parsed being what JSON.parse made of the content
lookup(content, id) ==
    IF \E p \in content.map : p[1] = id
    THEN Str((CHOOSE p \in content.map : p[1] = id)[2])
    ELSE Undefined

(***************************************************************************)
(* POST /analyze of the variant that asks the completion service           *)
(***************************************************************************)

\* the requests of the model for this handler
RemoteBodies ==
    {AnalyzeBody(TRUE, its, "", {}, {}) : its \in Lists(SmallItems, MaxItems)}
    \cup {AnalyzeBody(TRUE, <<>>, "", {}, {}),
          AnalyzeBody(FALSE, <<>>, "", {}, {})}

\* POST /analyze of the variant without local rules, from the request to the
\* response: items.slice(0, 5) throws a TypeError when the request has no
\* items array, callOpenAIChat throws unless a completion arrives, and both
\* are answered with status 500; else results is the content of the
\* completion, a string.  The items only reach the prompt.
AnalyzeRemote ==
    /\ an = <<>>
    /\ apiKey
    /\ \E body \in RemoteBodies, o \in BatchOutcomes :
          LET ok == body.isArray /\ o.kind = "ok"
          IN  an' = <<[AnalyzeResponse("remote", body, IF ok THEN 200 ELSE 500,
                                        <<>>, <<>>)
                          EXCEPT !.results = IF ok THEN o.content.text ELSE <<>>]>>
    /\ UNCHANGED <<like, dislike, dirty, file, saves, learnResp, learnWrites, apiKey, rw, call>>

(***************************************************************************)
(* POST /rewrite                                                           *)
(***************************************************************************)

str_american_joke == <<97, 109, 101, 114, 105, 99, 97, 110, 95, 106, 111, 107, 101>>
str_polish        == <<112, 111, 108, 105, 115, 104>>
str_polite_clean  == <<112, 111, 108, 105, 116, 101, 95, 99, 108, 101, 97, 110>>
str_dialect_kansai == <<100, 105, 97, 108, 101, 99, 116, 58, 107, 97, 110, 115, 97, 105>>
str_sep           == <<58, 58, 58, 32>>    \* "::: "
str_nl2           == <<10, 10>>            \* "\n\n"
txt_rude  == <<32, 27515, 12397, 32, 32, 12496, 12459, 32>>    \* " 死ね  バカ "
txt_kiero == <<28040, 12360, 12429, 33, 33>>                   \* "消えろ!!"

RewriteBody(isArray, items, style) ==
    [isArray |-> isArray, items |-> items, style |-> style]

Styles == {Undefined, Str(str_polish), Str(str_american_joke)}

\* the items of the lists of one item, and of the lists of several items
SingleItems ==
    {Item(Str(Id1), tx) :
        tx \in {Str(<<>>), Str(<<32>>), Str(str_hi), Str(txt_rude), Str(txt_kiero),
                Undefined}}

PairItems ==
    {Item(Str(Id1), Str(txt_rude)), Item(Str(Id2), Str(<<32>>)),
     Item(Undefined, Str(str_hi)), NullItem}

\* the request for the Kansai dialect
DialectBody ==
    RewriteBody(TRUE, <<Item(Str(Id1), Str(txt_kyou))>>, Str(str_dialect_kansai))

RewriteBodies ==
    {RewriteBody(TRUE, <<it>>, st) : it \in SingleItems, st \in Styles}
    \cup {RewriteBody(TRUE, its, st) : its \in Lists(PairItems, MaxItems), st \in Styles}
    \cup {RewriteBody(TRUE, <<>>, Undefined), RewriteBody(FALSE, <<>>, Undefined)}
    \cup {DialectBody}

\* the requests of index.js, the handler with a cap, also hold a list longer
\* than the cap
RewriteBodiesCapped ==
    RewriteBodies \cup {RewriteBody(TRUE, LongList(RewriteCap), Undefined)}

\* the state of a /rewrite request: awaiting the completion call for item i
\* (i = 0: for the whole batch), or responded; keys and vals are the
\* assignments out[key] = val made so far; "hung": the handler has thrown
\* out of its catch block and no response is sent; outs: how the completion
\* calls of the request have ended so far
RewriteState(handler, body, items, pc, i, keys, vals, status) ==
    [handler |-> handler, body |-> body, items |-> items, pc |-> pc, i |-> i,
     keys |-> keys, vals |-> vals, status |-> status, outs |-> <<>>,
     results |-> IF pc = "responded" /\ status = 200 THEN assignAll(keys, vals)
                 ELSE <<>>]

Responded(handler, body, items, keys, vals, status) ==
    RewriteState(handler, body, items, "responded", 0, keys, vals, status)

RECURSIVE joinLines(_, _)
joinLines(lines, k) ==
    IF k > Len(lines) THEN <<>>
    ELSE (IF k > 1 THEN str_nl2 ELSE <<>>) \o lines[k] \o joinLines(lines, k + 1)

\* joined of index.js: the lines id::: text, each cut at 4000, joined by
\* blank lines and cut at 16000
joined(items) ==
    slice0(joinLines([i \in 1..Len(items) |->
                         slice0(toStr(idOf(items[i])) \o str_sep
                                    \o toStr(textOf(items[i])), 4000)], 1),
           16000)

\* the keys toStr(it?.id) and the texts toStr(it?.text || "") of index.js
batchKeys(items)  == [i \in 1..Len(items) |-> toStr(idOf(items[i]))]
batchTexts(items) == [i \in 1..Len(items) |-> orEmpty(textOf(items[i]))]

\* results[id] = toStr(parsed[id]) || toStr(it?.text || "")
batchVals(items, content) ==
    [i \in 1..Len(items) |->
        LET v == toStr(lookup(content, toStr(idOf(items[i]))))
        IN  IF v # <<>> THEN v ELSE orEmpty(textOf(items[i]))]

\* index.js after the call: res is what callOpenAIChat returned or that it
\* threw.  A throw and a content JSON.parse rejects give the original
\* texts; parsed[id] on null throws a TypeError, answered with status 500
finishBatch(body, items, res) ==
    IF res.threw \/ res.content.kind = "text"
    THEN Responded("index", body, items, batchKeys(items), batchTexts(items), 200)
    ELSE IF res.content.kind = "null"
    THEN Responded("index", body, items, <<>>, <<>>, 500)
    ELSE Responded("index", body, items, batchKeys(items),
                   batchVals(items, res.content), 200)

\* POST /rewrite of index.js: one completion call for the batch; without a
\* key callOpenAIChat returns the user message, joined
Rewrite ==
    /\ rw = <<>>
    /\ \E body \in RewriteBodiesCapped :
          LET items == take(body, RewriteCap)
          IN  IF trim(joined(items)) = <<>>
              THEN /\ rw' = <<Responded("index", body, items, <<>>, <<>>, 200)>>
                   /\ call' = <<>>
              ELSE IF ~apiKey
              THEN /\ rw' = <<finishBatch(body, items,
                                 [threw |-> FALSE,
                                  content |-> Content("text", joined(items), {})])>>
                   /\ call' = <<>>
              ELSE /\ rw' = <<RewriteState("index", body, items, "awaiting", 0,
                                           <<>>, <<>>, 0)>>
                   /\ call' = <<Pending>>
    /\ UNCHANGED <<like, dislike, dirty, file, saves, learnResp, learnWrites, apiKey, an>>

\* the style the handler reads: String(req.body?.style || dflt).slice(0, 200)
styleOf(body, dflt) == slice0(IF orEmpty(body.style) = <<>> THEN dflt
                              ELSE body.style.s, 200)

isJoke(style) == includes(style, str_american_joke)

\* One turn of the loop of a handler that calls the service item by item: the
\* assignment out[it.id] = val it makes, or that it throws.  called: the
\* completion call was made and ended as o; k: the index Math.random picks.
\*   "safe"  (safeOpenAIChat, soften): the completion if it is ok and not
\*           blank, else soften(original), with the marker for american_joke
\*   "local" (softenJapanese): the completion, or without a key the local
\*           transform; the original if that is blank
\*   "plain": the trimmed completion, or without a key the original
\*   "dialect": the completion, whose prompt alone depends on the style, or
\*           without a key the original; the original if that is blank
\* out[it.id] throws a TypeError when the entry is null.
itemStep(handler, body, it, called, o, k) ==
    LET original == orEmpty(textOf(it))
        key      == String(it.id)
    IN  CASE handler = "safe" ->
               LET style == styleOf(body, str_american_joke)
                   r     == safeOpenAIChat(called, o, original)
               IN  [threw |-> it.isNull, key |-> key,
                    val |-> IF r.ok /\ trim(r.text) # <<>> THEN trim(r.text)
                            ELSE IF isJoke(style) THEN soften(original) \o lightMark
                            ELSE soften(original)]
          [] handler = "local" ->
               LET style == styleOf(body, str_polite_clean)
                   res   == callOpenAIChat(o)
                   rewritten == IF called THEN res.content.text
                                ELSE IF isJoke(style) THEN toAmericanJokeLine(original, k)
                                ELSE softenJapanese(original)
               IN  [threw |-> (called /\ res.threw) \/ it.isNull, key |-> key,
                    val |-> IF trim(rewritten) # <<>> THEN trim(rewritten) ELSE original]
          [] handler = "dialect" ->
               LET res == callOpenAIChat(o)
                   rewritten == IF called THEN res.content.text ELSE original
               IN  [threw |-> (called /\ res.threw) \/ it.isNull, key |-> key,
                    val |-> IF trim(rewritten) # <<>> THEN trim(rewritten) ELSE original]
          [] OTHER ->
               LET res == callOpenAIChatTrim(o)
               IN  [threw |-> (called /\ res.threw) \/ it.isNull, key |-> key,
                    val |-> IF called THEN res.content.text ELSE original]

\* what a handler answers when its loop throws: "safe" runs its catch block,
\* which throws again on the null entry that made the loop throw, and sends
\* nothing; the others answer with status 500
Thrown(handler, body, items) ==
    IF handler = "safe"
    THEN RewriteState(handler, body, items, "hung", 0, <<>>, <<>>, 0)
    ELSE Responded(handler, body, items, <<>>, <<>>, 500)

\* the whole loop when no call is awaited (no key is set)
localLoop(handler, body, items, ks) ==
    LET step(i) == itemStep(handler, body, items[i], FALSE,
                            Outcome("network", c_empty), ks[i])
        thrown  == {i \in 1..Len(items) : step(i).threw}
    IN  IF thrown # {} THEN Thrown(handler, body, items)
        ELSE Responded(handler, body, items,
                       [i \in 1..Len(items) |-> step(i).key],
                       [i \in 1..Len(items) |-> step(i).val], 200)

\* the indices Math.random may pick for the items: it is drawn only by the
\* local transform of american_joke
randoms(handler, body, items) ==
    IF handler = "local" /\ isJoke(styleOf(body, str_polite_clean))
    THEN [1..Len(items) -> 1..Len(addOns)]
    ELSE {[i \in 1..Len(items) |-> 1]}

\* the start of a handler that calls the service item by item
startLoop(handler) ==
    /\ rw = <<>>
    /\ \E body \in RewriteBodies :
          LET items == arrayOrEmpty(body)
          IN  IF apiKey /\ items # <<>>
              THEN /\ rw' = <<RewriteState(handler, body, items, "awaiting", 1,
                                           <<>>, <<>>, 0)>>
                   /\ call' = <<Pending>>
              ELSE /\ \E ks \in randoms(handler, body, items) :
                         rw' = <<localLoop(handler, body, items, ks)>>
                   /\ call' = <<>>
    /\ UNCHANGED <<like, dislike, dirty, file, saves, learnResp, learnWrites, apiKey, an>>

\* POST /rewrite of the variant with safeOpenAIChat and soften
RewriteSafe == startLoop("safe")

\* POST /rewrite of the variant with softenJapanese and toAmericanJokeLine
RewriteLocal == startLoop("local")

\* POST /rewrite of the variant that passes the text through without a key
RewritePlain == startLoop("plain")

\* POST /rewrite of the variant with the dialect presets
RewriteDialect == startLoop("dialect")

\* the completion service answers, or the fetch fails
ServiceSettles ==
    /\ call # <<>> /\ call[1].state = "pending"
    /\ \E o \in (IF rw[1].handler = "index" THEN BatchOutcomes ELSE ItemOutcomes) :
          call' = <<Settled(o)>>
    /\ UNCHANGED <<like, dislike, dirty, file, saves, learnResp, learnWrites, apiKey, an, rw>>

\* The fetch of the variant with safeOpenAIChat is the global fetch of
\* Node 18, which gives up when no response headers arrive in time; the
\* fetch of the other variants is node-fetch, called without a timeout
HeadersTimeout ==
    /\ call # <<>> /\ call[1].state = "pending"
    /\ rw[1].handler = "safe"
    /\ call' = <<Settled(Outcome("network", c_empty))>>
    /\ UNCHANGED <<like, dislike, dirty, file, saves, learnResp, learnWrites, apiKey, an, rw>>

\* the handler goes on after its await
Resume ==
    /\ call # <<>> /\ call[1].state = "settled"
    /\ LET r == rw[1]
           o == call[1].outcome
           seen(st) == [st EXCEPT !.outs = Append(r.outs, o)]
       IN  IF r.handler = "index"
           THEN /\ rw' = <<seen(finishBatch(r.body, r.items, callOpenAIChat(o)))>>
                /\ call' = <<>>
           ELSE LET st == itemStep(r.handler, r.body, r.items[r.i], TRUE, o, 1)
                    keys == Append(r.keys, st.key)
                    vals == Append(r.vals, st.val)
                IN  IF st.threw
                    THEN /\ rw' = <<seen(Thrown(r.handler, r.body, r.items))>>
                         /\ call' = <<>>
                    ELSE IF r.i = Len(r.items)
                    THEN /\ rw' = <<seen(Responded(r.handler, r.body, r.items, keys,
                                                    vals, 200))>>
                         /\ call' = <<>>
                    ELSE /\ rw' = <<seen(RewriteState(r.handler, r.body, r.items,
                                                      "awaiting", r.i + 1, keys, vals, 0))>>
                         /\ call' = <<Pending>>
    /\ UNCHANGED <<like, dislike, dirty, file, saves, learnResp, learnWrites, apiKey, an>>

\* the client has received the response, or has given up waiting for one
\* that is never sent
RewriteDone ==
    /\ rw # <<>> /\ rw[1].pc \in {"responded", "hung"}
    /\ rw' = <<>>
    /\ UNCHANGED <<like, dislike, dirty, file, saves, learnResp, learnWrites, apiKey, an, call>>

(***************************************************************************)
(* The learning store of index.js and the file that holds its record       *)
(***************************************************************************)

\* the file holds one complete record
Record(l, d) == [kind |-> "record", like |-> l, dislike |-> d]

\* the file has been opened for writing and holds nothing yet
Truncated == [kind |-> "truncated", like |-> <<>>, dislike |-> <<>>]

\* the file holds the start of one record followed by the rest of a longer
\* one, the one with the tokens l and d
Torn(l, d) == [kind |-> "torn", like |-> l, dislike |-> d]

RECURSIVE SumLen(_, _)
SumLen(arr, k) == IF k > Len(arr) THEN 0 ELSE Len(arr[k]) + 2 + SumLen(arr, k + 1)

\* the length of JSON.stringify of an array of tokens
arrayLen(arr) == 2 + SumLen(arr, 1) + (IF Len(arr) > 1 THEN Len(arr) - 1 ELSE 0)

\* the length of the file; the keys and saved_at take the same room in
\* every record and are left out
fileLen(f) == IF f.kind = "truncated" THEN 0 ELSE arrayLen(f.like) + arrayLen(f.dislike)

\* fs.writeFile has opened the file and now writes data at its start: the
\* file holds data, followed by what another write has put beyond its end
\* meanwhile
overlay(data, f) ==
    IF fileLen(data) >= fileLen(f) THEN data ELSE Torn(f.like, f.dislike)

\* the arrays of a /learn request: no array, or an array of strings
LearnArg(isArray, items) == [isArray |-> isArray, items |-> items]

\* the handler that awaits save() is no /learn handler
NoRequest == <<LearnArg(FALSE, <<>>), LearnArg(FALSE, <<>>)>>

\* Learn.save() from its check of _dirty to the call of fs.writeFile: the
\* snapshot it writes; req: likeArr and dislikeArr of the /learn handler
\* that awaits it
snapshot(who, l, d) ==
    [who |-> who, data |-> Record(l, d), phase |-> "open", req |-> NoRequest]

inFlight(who) == \E s \in saves : s.who = who

\* the server listens once Learn.load() has completed
listening == ~inFlight("load")

\* a response of op is waiting for its client, who sends the next request
\* once the response has arrived
answered(op) == \E i \in 1..Len(learnResp) : learnResp[i].op = op

LikeArgs ==
    {LearnArg(FALSE, <<>>), LearnArg(TRUE, <<Str(Tok1)>>),
     LearnArg(TRUE, <<Str(<<32>> \o Tok1), Str(<<32>>), Null, Str(Tok1)>>)}

DislikeArgs == {LearnArg(FALSE, <<>>), LearnArg(TRUE, <<Str(Tok2)>>)}

RECURSIVE addAll(_, _, _)
addAll(set, arr, k) ==
    IF k > Len(arr) THEN set
    ELSE LET t == trim(toStr(arr[k]))
         IN  addAll(IF t # <<>> THEN setAdd(set, t) ELSE set, arr, k + 1)

\* addLike(arr) and addDislike(arr) on the Set they add to; both set _dirty
addLike(set, arr) == addAll(set, arr, 1)
addDislike(set, arr) == addAll(set, arr, 1)

\* Learn.export(), with the content of the file at that moment
LearnResponse(op, l, d, f) ==
    [op |-> op, like_tokens |-> l, dislike_tokens |-> d, durable |-> f]

\* POST /learn up to its await: the tokens are added, _dirty is set and
\* save() takes its snapshot and calls fs.writeFile
Learn ==
    /\ listening /\ ~inFlight("learn") /\ ~answered("learn")
    /\ Cardinality(saves) < MaxSaves
    /\ \E la \in LikeArgs, da \in DislikeArgs :
          /\ like' = addLike(like, take(la, LearnCap))
          /\ dislike' = addDislike(dislike, take(da, LearnCap))
          /\ saves' = saves \cup {[snapshot("learn", like', dislike')
                                      EXCEPT !.req = <<la, da>>]}
    /\ dirty' = TRUE
    /\ learnWrites < MaxWrites
    /\ learnWrites' = learnWrites + 1
    /\ UNCHANGED <<file, learnResp, apiKey, an, rw, call>>

\* POST /learn/reset up to its await: Learn.reset() clears both sets, sets
\* _dirty and calls save()
Reset ==
    /\ listening /\ ~inFlight("reset") /\ ~answered("reset")
    /\ Cardinality(saves) < MaxSaves
    /\ like' = <<>>
    /\ dislike' = <<>>
    /\ dirty' = TRUE
    /\ saves' = saves \cup {snapshot("reset", <<>>, <<>>)}
    /\ UNCHANGED <<file, learnResp, learnWrites, apiKey, an, rw, call>>

\* the timer of setInterval ticks: save() returns at once unless _dirty is
\* set
Tick ==
    /\ dirty => (~inFlight("timer") /\ Cardinality(saves) < MaxSaves)
    /\ saves' = IF dirty THEN saves \cup {snapshot("timer", like, dislike)} ELSE saves
    /\ learnWrites' = 0
    /\ UNCHANGED <<like, dislike, dirty, file, learnResp, apiKey, an, rw, call>>

\* fs.writeFile opens the file, which truncates it
WriteOpen ==
    \E s \in saves :
        /\ s.phase = "open"
        /\ file' = Truncated
        /\ saves' = (saves \ {s}) \cup {[s EXCEPT !.phase = "write"]}
        /\ UNCHANGED <<like, dislike, dirty, learnResp, learnWrites, apiKey, an, rw, call>>

\* fs.writeFile writes the data of its snapshot
WriteData ==
    \E s \in saves :
        /\ s.phase = "write"
        /\ file' = overlay(s.data, file)
        /\ saves' = (saves \ {s}) \cup {[s EXCEPT !.phase = "close"]}
        /\ UNCHANGED <<like, dislike, dirty, learnResp, learnWrites, apiKey, an, rw, call>>

\* fs.writeFile resolves: save() clears _dirty and returns, and the handler
\* that awaited it answers with Learn.export()
SaveEnd ==
    \E s \in saves :
        /\ s.phase = "close"
        /\ dirty' = FALSE
        /\ saves' = saves \ {s}
        /\ learnResp' = IF s.who \in {"learn", "reset"}
                        THEN Append(learnResp, LearnResponse(s.who, like, dislike, file))
                        ELSE learnResp
        /\ UNCHANGED <<like, dislike, file, learnWrites, apiKey, an, rw, call>>

\* the client has received the response
LearnDone ==
    /\ learnResp # <<>>
    /\ learnResp' = Tail(learnResp)
    /\ UNCHANGED <<like, dislike, dirty, file, saves, learnWrites, apiKey, an, rw, call>>

\* what Learn.load() makes of the file: the sets of a complete record; a
\* file JSON.parse rejects gives two empty sets
loadOf(f) == IF f.kind = "record" THEN [like |-> f.like, dislike |-> f.dislike]
             ELSE [like |-> <<>>, dislike |-> <<>>]

\* The process ends, its pending writes and responses with it, and starts
\* again: Learn.load() reads the file; when JSON.parse rejects it, load()
\* sets _dirty and saves the empty record
Restart ==
    /\ like' = loadOf(file).like
    /\ dislike' = loadOf(file).dislike
    /\ dirty' = (file.kind # "record")
    /\ saves' = IF file.kind = "record" THEN {} ELSE {snapshot("load", <<>>, <<>>)}
    /\ learnResp' = <<>>
    /\ learnWrites' = 0
    /\ UNCHANGED <<file, apiKey, an, rw, call>>

(***************************************************************************)
(* The start of the process and the specifications                        *)
(***************************************************************************)

\* the records a former run of the process may have left
InitialRecords == {Record(l, d) : l \in {<<>>, <<Tok1>>}, d \in {<<>>, <<Tok2>>}}

\* the state when the server starts to listen: Learn.load() has completed
\* (it created the record, empty, if there was none)
Init ==
    /\ file \in InitialRecords
    /\ like = file.like
    /\ dislike = file.dislike
    /\ dirty = FALSE
    /\ saves = {}
    /\ learnResp = <<>>
    /\ learnWrites = 0
    /\ apiKey \in BOOLEAN
    /\ an = <<>>
    /\ rw = <<>>
    /\ call = <<>>

NextAnalyze == Analyze \/ AnalyzeLevels \/ AnalyzeRemote \/ AnalyzeDone

SpecAnalyze == Init /\ [][NextAnalyze]_vars

NextRewrite ==
    \/ Rewrite \/ RewriteSafe \/ RewriteLocal \/ RewritePlain \/ RewriteDialect
    \/ ServiceSettles \/ HeadersTimeout \/ Resume \/ RewriteDone

SpecRewrite == Init /\ [][NextRewrite]_vars

\* The event loop runs the continuation of a settled await, and the global
\* fetch enforces its timeout; nothing makes the completion service answer
FairRewrite == SpecRewrite /\ WF_vars(Resume) /\ WF_vars(HeadersTimeout)

\* the /analyze and /rewrite handlers, one request at a time
NextRequests ==
    \/ rw = <<>> /\ NextAnalyze
    \/ an = <<>> /\ NextRewrite

SpecRequests == Init /\ [][NextRequests]_vars

NextStore ==
    \/ Learn \/ Reset \/ Tick \/ WriteOpen \/ WriteData \/ SaveEnd \/ LearnDone
    \/ Restart

SpecStore == Init /\ [][NextStore]_vars


(***************************************************************************)
(* The claims about /analyze                                               *)
(***************************************************************************)

\* text contains the token w, letter case ignored; the empty string is no token
matches(text, w) == w # <<>> /\ includes(toLowerCase(orEmpty(text)), toLowerCase(w))

\* C1: for every item of an /analyze request whose text contains, letter
\* case ignored, a token of the learned dislike set, the response maps the
\* item's id to hide, whatever the level and the tokens of the request (the
\* item's id being the id of no other item of the request).
C1_LearnedDislikeHides ==
    \A r \in Range(an) :
        (r.handler = "index" /\ r.body.isArray) =>
            \A i \in 1..Len(r.body.items) :
                LET it == r.body.items[i]
                IN  (/\ toStr(idOf(it)) # <<>>
                     /\ \A j \in 1..Len(r.body.items) :
                            toStr(idOf(r.body.items[j])) = toStr(idOf(it)) => j = i
                     /\ \E w \in Range(dislike) : matches(textOf(it), w))
                    => /\ r.status = 200
                       /\ toStr(idOf(it)) \in DOMAIN r.results
                       /\ r.results[toStr(idOf(it))] = "hide"

\* The same for the items the handler classifies: the suggestion it computes
\* for an item whose text contains a learned dislike token is hide.
LearnedDislikeHidesClassified ==
    \A r \in Range(an) :
        r.handler = "index" =>
            \A i \in 1..Len(r.suggests) :
                (\E w \in Range(dislike) : matches(textOf(r.body.items[i]), w))
                    => r.suggests[i] = "hide"

\* the four heuristic categories on the raw text of an item
hitProfanity(text) == testAnyI(orEmpty(text), rx_profanity)
hitSexual(text)    == testAnyI(orEmpty(text), rx_sexual)
hitNoise(text)     == rx_spamNoise(orEmpty(text))
hitEmptyReply(text) == rx_emptyRp(orEmpty(text))

\* C5: when no dislike token matches, the strictness-level /analyze maps the
\* heuristic hits to the action as the table says: strict hides on any hit;
\* moderate hides on profanity, sexual or empty-reply and rewrites on noise
\* alone; relaxed and any unrecognised level hide on profanity or sexual and
\* rewrite on noise or empty-reply.
C5_LevelTable ==
    \A r \in Range(an) :
        r.handler = "levels" =>
            \A i \in 1..Len(r.suggests) :
                LET text  == r.body.items[i].text
                    ps    == hitProfanity(text) \/ hitSexual(text)
                    noise == hitNoise(text)
                    empty == hitEmptyReply(text)
                    s     == r.suggests[i]
                IN  (\A w \in r.body.dislike_tokens : ~matches(text, w)) =>
                        CASE r.body.level = "strict" ->
                                 (ps \/ noise \/ empty) => s = "hide"
                          [] r.body.level = "moderate" ->
                                 /\ (ps \/ empty) => s = "hide"
                                 /\ (noise /\ ~ps /\ ~empty) => s = "rewrite"
                          [] r.body.level = "" -> TRUE
                          [] OTHER ->
                                 /\ ps => s = "hide"
                                 /\ ((noise \/ empty) /\ ~ps) => s = "rewrite"

\* a response of the strictness-level /analyze at level moderate whose item
\* hits noise alone and is suggested for rewrite
C5_Witness ==
    \E r \in Range(an) :
        /\ r.handler = "levels" /\ r.body.level = "moderate"
        /\ Len(r.suggests) = 1
        /\ hitNoise(r.body.items[1].text)
        /\ ~hitProfanity(r.body.items[1].text) /\ ~hitSexual(r.body.items[1].text)
        /\ ~hitEmptyReply(r.body.items[1].text)
        /\ r.suggests[1] = "rewrite"

\* C6: what the strictness-level /analyze hides at level relaxed it hides at
\* moderate and strict, and what it hides at moderate it hides at strict,
\* for the same text and the same token sets.
C6_StrictnessMonotone ==
    \A r \in Range(an) :
        r.handler = "levels" =>
            \A i \in 1..Len(r.suggests) :
                LET text == r.body.items[i].text
                    at(level) == decide(text, level, lowerWords(r.body.like_tokens),
                                        lowerWords(r.body.dislike_tokens))
                IN  r.suggests[i] = "hide" =>
                        /\ r.body.level = "relaxed" =>
                               at("moderate") = "hide" /\ at("strict") = "hide"
                        /\ r.body.level = "moderate" => at("strict") = "hide"

\* an item with an empty-reply text and nothing else is hidden at level
\* moderate (and not at relaxed)
C6_Witness ==
    \E r \in Range(an) :
        /\ r.handler = "levels" /\ r.body.level = "moderate"
        /\ Len(r.suggests) = 1
        /\ r.suggests[1] = "hide"
        /\ decide(r.body.items[1].text, "relaxed", lowerWords(r.body.like_tokens),
                  lowerWords(r.body.dislike_tokens)) = "rewrite"

\* C7: a like-token match has the lowest priority.  A text that matches a
\* like token and also a dislike token, or a heuristic category that the
\* level maps to hide, is classified hide; a text that matches a like token
\* (of the request or learned) and no dislike token and no heuristic rule is
\* classified rewrite; a text that matches nothing is classified keep.
C7_LikeIsLast ==
    \A r \in Range(an) :
        \A i \in 1..Len(r.suggests) :
            LET text    == textOf(r.body.items[i])
                index   == r.handler = "index"
                likes   == r.body.like_tokens \cup (IF index THEN Range(like) ELSE {})
                dislikes == r.body.dislike_tokens
                               \cup (IF index THEN Range(dislike) ELSE {})
                likeHit == \E w \in likes : matches(text, w)
                disHit  == \E w \in dislikes : matches(text, w)
                bad     == \E k \in 1..Len(badHints) : matches(text, badHints[k])
                ps      == hitProfanity(text) \/ hitSexual(text)
                level   == IF r.body.level = "" THEN "moderate" ELSE r.body.level
                heurAny == IF index THEN bad
                           ELSE ps \/ hitNoise(text) \/ hitEmptyReply(text)
                heurHide == IF index THEN bad
                            ELSE CASE level = "strict" -> heurAny
                                   [] level = "moderate" -> ps \/ hitEmptyReply(text)
                                   [] OTHER -> ps
                s       == r.suggests[i]
            IN  /\ (likeHit /\ (disHit \/ heurHide)) => s = "hide"
                /\ (likeHit /\ ~disHit /\ ~heurAny) => s = "rewrite"
                /\ (~likeHit /\ ~disHit /\ ~heurAny) => s = "keep"

\* index.js classifies as hide a text that matches a learned like token and
\* a word of badHints
C7_Witness ==
    \E r \in Range(an) :
        /\ r.handler = "index" /\ Len(r.suggests) = 1
        /\ \E w \in Range(like) : matches(textOf(r.body.items[1]), w)
        /\ \A w \in r.body.dislike_tokens \cup Range(dislike) :
               ~matches(textOf(r.body.items[1]), w)
        /\ \E k \in 1..Len(badHints) : matches(textOf(r.body.items[1]), badHints[k])
        /\ r.suggests[1] = "hide"


(***************************************************************************)
(* The claims about the ids of a response                                  *)
(***************************************************************************)

\* the ids present in a list of items
inputIds(items) == {toStr(idOf(items[i])) : i \in 1..Len(items)} \ {<<>>}

\* the keys of results are the ids of the request, and generated ids only
\* when an item of the request has no id
keysAreIds(results, items) ==
    /\ inputIds(items) \subseteq DOMAIN results
    /\ \A k \in DOMAIN results :
          \/ k \in inputIds(items)
          \/ k \in GenIds /\ \E i \in 1..Len(items) : toStr(idOf(items[i])) = <<>>

\* C3: /analyze and /rewrite of index.js answer with a results mapping whose
\* keys are exactly the ids present in the list of the request, whatever its
\* length, whether ids repeat, and however the completion call ended; a
\* generated id appears only for an item without id.
C3_EveryIdOnce ==
    /\ \A r \in Range(an) :
          r.handler = "index" =>
              r.status = 200 /\ keysAreIds(r.results, arrayOrEmpty(r.body))
    /\ \A r \in Range(rw) :
          (r.handler = "index" /\ r.pc = "responded") =>
              r.status = 200 /\ keysAreIds(r.results, arrayOrEmpty(r.body))

(***************************************************************************)
(* The claims about /rewrite                                               *)
(***************************************************************************)

\* no entry of the list is null
wellFormed(r) == \A i \in 1..Len(r.items) : ~r.items[i].isNull

\* entry i is the last one of the list to assign its key
lastOfKey(r, i) ==
    \A j \in 1..Len(r.items) :
        String(r.items[j].id) = String(r.items[i].id) => j <= i

\* C2: whatever the outcome of the completion call (no key, network failure,
\* non-success status, unparsable or empty body), a /rewrite request
\* is answered with a success status, never with a 5xx error.
C2_RewriteNeverFails ==
    \A r \in Range(rw) :
        (r.handler \in {"index", "safe", "local"} /\ r.pc = "responded" /\ wellFormed(r))
            => r.status = 200

\* C4: an item of a rewrite batch whose text is not empty, whitespace-only
\* text included, is returned with a text that is not empty, whether the
\* completion, the local fallback or the pass-through served it.
C4_NonEmptyStaysNonEmpty ==
    \A r \in Range(rw) :
        (r.handler \in {"safe", "plain"} /\ r.pc = "responded" /\ r.status = 200) =>
            \A i \in 1..Len(r.items) :
                (orEmpty(textOf(r.items[i])) # <<>> /\ lastOfKey(r, i))
                    => /\ String(r.items[i].id) \in DOMAIN r.results
                       /\ r.results[String(r.items[i].id)] # <<>>

\* C8: when the completion call of a batch has succeeded for some items and
\* failed for others, the batch is answered with a success status, every
\* item whose call gave a text is returned with that text and every item
\* whose call failed with the text the handler gives without the service.
\* In the batched handler the items the completion omits play the part of the
\* failed ones.
C8_FailureIsolation ==
    \A r \in Range(rw) :
        /\ ( /\ r.handler \in {"safe", "local"} /\ r.pc = "responded" /\ wellFormed(r)
             /\ \E i \in 1..Len(r.outs) : r.outs[i].kind = "ok"
             /\ \E i \in 1..Len(r.outs) : r.outs[i].kind # "ok" )
           => /\ r.status = 200
              /\ \A i \in 1..Len(r.outs) :
                    lastOfKey(r, i) =>
                        LET key  == String(r.items[i].id)
                            text == trim(r.outs[i].content.text)
                        IN  /\ key \in DOMAIN r.results
                            /\ (r.outs[i].kind = "ok" /\ text # <<>>)
                                   => r.results[key] = text
                            /\ r.outs[i].kind # "ok"
                                   => \E k \in 1..Len(addOns) :
                                         r.results[key] =
                                             itemStep(r.handler, r.body, r.items[i],
                                                      FALSE, r.outs[i], k).val
        /\ ( /\ r.handler = "index" /\ r.pc = "responded" /\ r.outs # <<>>
             /\ r.outs[1].kind = "ok" /\ r.outs[1].content.kind = "object" )
           => /\ r.status = 200
              /\ \A i \in 1..Len(r.items) :
                    LET key == toStr(idOf(r.items[i]))
                        got == toStr(lookup(r.outs[1].content, key))
                    IN  (\A j \in 1..Len(r.items) :
                            toStr(idOf(r.items[j])) = key => j <= i)
                        => /\ key \in DOMAIN r.results
                           /\ r.results[key] = IF got # <<>> THEN got
                                               ELSE orEmpty(textOf(r.items[i]))

\* C9: a /rewrite request that awaits the completion service is answered in
\* the end, even when the service never answers.
C9_EveryRequestAnswered ==
    (rw # <<>> /\ rw[1].pc = "awaiting" /\ wellFormed(rw[1]))
        ~> (rw # <<>> /\ rw[1].pc = "responded")

(***************************************************************************)
(* The claims about the learning store                                     *)
(***************************************************************************)

\* C10: when /learn/reset completes and Learn.export() gives two empty
\* sequences, a restart followed by load() at that moment observes two empty
\* sets, however the reset interleaves with the saves of the timer and of
\* /learn.
C10_ResetIsDurable ==
    \A i \in 1..Len(learnResp) :
        (/\ learnResp[i].op = "reset"
         /\ learnResp[i].like_tokens = <<>>
         /\ learnResp[i].dislike_tokens = <<>>)
            => /\ loadOf(learnResp[i].durable).like = <<>>
               /\ loadOf(learnResp[i].durable).dislike = <<>>

\* C11: the file always holds one complete record, the snapshot of a single
\* save(): never a partial file and never a mixture of two snapshots,
\* however the saves of the timer, of /learn and of /learn/reset overlap.
C11_NeverTorn == file.kind = "record"

\* a sequence that lists no element twice
noDuplicates(seq) == \A i, j \in 1..Len(seq) : seq[i] = seq[j] => i = j

\* C12: Learn.export() lists each token at most once per set, and adding
\* again the tokens of an array to the set they were added to leaves the set
\* as it is, for every array of a /learn request.
C12_SetSemantics ==
    /\ noDuplicates(like) /\ noDuplicates(dislike)
    /\ \A i \in 1..Len(learnResp) :
          noDuplicates(learnResp[i].like_tokens)
              /\ noDuplicates(learnResp[i].dislike_tokens)
    /\ \A a \in LikeArgs :
          LET once == addLike(like, take(a, LearnCap))
          IN  noDuplicates(once) /\ addLike(once, take(a, LearnCap)) = once
    /\ \A a \in DislikeArgs :
          LET once == addDislike(dislike, take(a, LearnCap))
          IN  noDuplicates(once) /\ addDislike(once, take(a, LearnCap)) = once

\* the file holds the token neko, and a /learn request whose like array names
\* the token twice has run addLike on a set that holds it: its snapshot and
\* the set list the token once
C12_Witness ==
    /\ file = Record(<<Tok1>>, <<>>) /\ like = <<Tok1>>
    /\ \E s \in saves :
          /\ s.who = "learn" /\ s.phase = "open"
          /\ Len(s.req[1].items) = 4
          /\ addLike(<<>>, take(s.req[1], LearnCap)) = <<Tok1>>
          /\ s.data.like = <<Tok1>>

(***************************************************************************)
(* The claims about what a request leaves alone                            *)
(***************************************************************************)

C14_LearnWritesBatched == learnWrites <= 1

(***************************************************************************)
(* The claims about malformed input                                        *)
(***************************************************************************)

\* entry i of the list is an object with an id and a text
wellFormedEntry(items, i) ==
    /\ ~items[i].isNull
    /\ items[i].id.t = "string" /\ items[i].id.s # <<>>
    /\ items[i].text.t = "string"

\* the well-formed entries of the list have their ids among the keys of results
wellFormedAnswered(items, results) ==
    \A i \in 1..Len(items) :
        wellFormedEntry(items, i) => items[i].id.s \in DOMAIN results

\* C15: a request without items, or whose items is no array, is answered
\* with a success status and an empty results mapping; a list that holds a
\* malformed entry (null, or without id or text) is answered with a success
\* status and results for all its well-formed entries.  Lists longer than the
\* caps and completion calls that fail are left aside.
C15_MalformedInputTolerated ==
    /\ \A r \in Range(an) :
          LET items == arrayOrEmpty(r.body)
          IN  Len(items) <= MaxItems =>
                  /\ r.status = 200
                  /\ items = <<>> => r.results = <<>>
                  /\ r.handler # "remote" => wellFormedAnswered(items, r.results)
    /\ \A r \in Range(rw) :
          LET items == arrayOrEmpty(r.body)
          IN  (/\ r.pc # "awaiting" /\ Len(items) <= MaxItems
               /\ \A k \in 1..Len(r.outs) :
                     r.outs[k].kind = "ok" /\ r.outs[k].content.kind # "null")
                  => /\ r.pc = "responded" /\ r.status = 200
                     /\ items = <<>> => r.results = <<>>
                     /\ wellFormedAnswered(items, r.results)

(***************************************************************************)
(* The claims about the local fallbacks                                    *)
(***************************************************************************)

\* out is empty exactly when in is
sameEmptiness(in, out) == (out = <<>>) <=> (in = <<>>)

\* C16: the local transform a /rewrite handler applies when it has no
\* completion gives an empty text for an empty text and a text that is not
\* empty for a text that is not empty: soften and softenJapanese for the
\* polish styles, soften with its marker and toAmericanJokeLine for
\* american_joke.
C16_FallbackKeepsEmptiness ==
    \A r \in Range(rw) :
        (r.pc = "responded" /\ r.status = 200 /\ r.outs = <<>>) =>
            \A i \in 1..Len(r.items) :
                LET t == orEmpty(textOf(r.items[i]))
                IN  /\ (r.handler = "safe" /\ ~isJoke(styleOf(r.body, str_american_joke)))
                           => sameEmptiness(t, soften(t))
                    /\ (r.handler = "safe" /\ isJoke(styleOf(r.body, str_american_joke)))
                           => sameEmptiness(t, soften(t) \o lightMark)
                    /\ (r.handler = "local" /\ ~isJoke(styleOf(r.body, str_polite_clean)))
                           => sameEmptiness(t, softenJapanese(t))
                    /\ (r.handler = "local" /\ isJoke(styleOf(r.body, str_polite_clean)))
                           => \A k \in 1..Len(addOns) :
                                  sameEmptiness(t, toAmericanJokeLine(t, k))

\* C17: without a completion service, the request with style
\* "dialect:kansai" for the text txt_kyou, which holds no phrase of the
\* softening tables and ends with a full stop, is answered for that item
\* with a text that is neither empty nor the text itself.
C17_DialectFallbackRewrites ==
    \A r \in Range(rw) :
        (r.body = DialectBody /\ r.pc = "responded" /\ r.outs = <<>>) =>
            /\ r.status = 200
            /\ Id1 \in DOMAIN r.results
            /\ r.results[Id1] # <<>>
            /\ r.results[Id1] # txt_kyou

\* C18: whenever the store is not dirty and no save() awaits its write, the
\* record a load() would read from the file holds the like and dislike sets
\* of the store: tokens added while a save() awaited its write are either
\* still marked dirty when it ends or in the file.
C18_NoTokenLost ==
    (~dirty /\ saves = {}) =>
        /\ Range(loadOf(file).like) = Range(like)
        /\ Range(loadOf(file).dislike) = Range(dislike)

=============================================================================
